---- MODULE Spec2Model ----
(***************************************************************************)
(* Upload orchestration pipeline of pages/api/upload.ts: staging-target    *)
(* acquisition, binary transfer, asset registration and readiness polling. *)
(* One request is one sequential execution of `handler`; every action is   *)
(* the code that runs between two awaits of that execution.                *)
(***************************************************************************)
EXTENDS Integers, Sequences, FiniteSets, TLC

(* ---------------------------------------------------------------------- *)
(* Bounds of the model                                                     *)
(* ---------------------------------------------------------------------- *)
MaxBudget == 3
MaxParams == 3
MaxUrlLen == 4
MaxNameLen == 3
MaxMimeLen == 3
ConcBudget == 2

\* setTimeout(r, 1000), line 182
SleepMs == 1000

(* ---------------------------------------------------------------------- *)
(* Values                                                                  *)
(* ---------------------------------------------------------------------- *)
Null == "null"

Reqs == {1, 2}

Methods == {"POST", "GET"}

\* strings are sequences of tokens, so that prefixes can be computed
Mimetypes == { <<"video", "/", "mp4">>, <<"image", "/", "png">>,
               <<"application", "/", "pdf">>, <<"video">> }

\* text is a sequence of characters; originalFilename may be null
NullName == <<Null>>
Mov == <<"a", ".", "m", "o", "v">>
Mp4 == <<"a", ".", "m", "p", "4">>
Png == <<"a", ".", "p", "n", "g">>

\* the uploaded file as formidable hands it over (line 59) and whether
\* readFile succeeds (line 58)
FileOf(m) ==
  [mimetype |-> m,
   originalFilename |-> IF m = <<"video", "/", "mp4">> THEN Mov
                        ELSE IF m = <<"image", "/", "png">> THEN Png
                        ELSE IF m = <<"video">> THEN Mp4
                        ELSE NullName]
Files == { [file |-> FileOf(m), readable |-> b] : m \in Mimetypes, b \in BOOLEAN }
NoUpload == [mimetype |-> <<>>, originalFilename |-> NullName]

ErrorLists == { <<>>, <<"Throttled">> }
StagingUserErrors == { <<>>, <<"File size exceeds limit">> }
CreateUserErrors == { <<>>, <<"Invalid file type">> }

Target ==
  [url |-> "https://stage/put",
   resourceUrl |-> <<"/", "r", "/", "a", ".", "m", "p", "4">>,
   parameters |-> << [name |-> "key", value |-> "tmp/a.mp4"],
                     [name |-> "policy", value |-> "eyJ"] >>]
NoTarget == [url |-> Null, resourceUrl |-> <<>>, parameters |-> <<>>]
TargetLists == { <<>>, <<Target>> }

Typenames == {"GenericFile", "MediaImage", "Video"}
\* the identifier names the type of the record, as in gid://shop/MediaImage/1
IdOf(t) == <<"gid://shop", t, 1>>
CreatedFiles == { [typename |-> t, id |-> IdOf(t)] : t \in Typenames }
CreatedLists == { <<>> } \cup { <<c>> : c \in CreatedFiles }
\* files[0] of an empty list
NoFile == [typename |-> Null, id |-> <<>>]

Statuses == {"PROCESSING", "READY", "FAILED"}
Urls == {Null, "", "https://cdn/x.jpg"}

\* a node of the poll answer: only the fragment of its typename is filled
\* (url: GenericFile.url, imageUrl: MediaImage.image?.url,
\*  sourceUrl: Video.sources?.[0]?.url)
MkNode(t, s, u) ==
  [typename |-> t, fileStatus |-> s,
   url |-> IF t = "GenericFile" THEN u ELSE Null,
   imageUrl |-> IF t = "MediaImage" THEN u ELSE Null,
   sourceUrl |-> IF t = "Video" THEN u ELSE Null]
\* the identifier is stable across polling: the nodes of one asset all have
\* the type of the record that fileCreate made
NodesOf(t) == { MkNode(t, s, u) : s \in Statuses, u \in Urls }
NullNode == MkNode(Null, Null, Null)

\* the answers of the platform to the three documents, {data, errors?}, and
\* the HTTP status they come with; an answer without errors is a 2xx
AdminResults(DataSet) ==
  { [ok |-> TRUE, errors |-> <<>>, data |-> d] : d \in DataSet }
  \cup { [ok |-> o, errors |-> e, data |-> d] :
          o \in BOOLEAN, e \in ErrorLists \ {<<>>}, d \in DataSet }
StagingResults ==
  AdminResults([userErrors : StagingUserErrors, stagedTargets : TargetLists])
CreateResults ==
  AdminResults([userErrors : CreateUserErrors, files : CreatedLists])
PollResults(t) == AdminResults([node : NodesOf(t) \cup {NullNode}])

\* the answers of the staged target: HTTP status and raw body
UploadResults == { [ok |-> TRUE, text |-> ""] }
  \cup { [ok |-> FALSE, text |-> t] : t \in {"", "<Error>AccessDenied</Error>"} }

(* ---------------------------------------------------------------------- *)
(* State                                                                   *)
(* ---------------------------------------------------------------------- *)
VARIABLES
  POLL_ATTEMPTS,  \* module constant read from the environment at load
  pc,             \* per request: the await the execution is suspended at
  file,           \* per request: const file (originalFilename, mimetype)
  contentType,    \* per request: const contentType
  target,         \* per request: const target (stagedTargets[0])
  created,        \* per request: const created (fileCreate.files[0])
  i,              \* per request: loop counter of the poll loop
  finalUrl,       \* per request: let finalUrl
  lastStatus,     \* per request: let lastStatus
  responses,      \* per request: responses written to res
  calls,          \* per request: outbound calls and suspensions issued
  replies,        \* per request: answers received to the outbound calls
  request,        \* per request: what came in (method, outcome of form.parse)
  fn,             \* the last application of a pure part of the handler
  page,           \* the upload page: file, uploading, result, error
  fetches         \* the upload page: its requests in flight

vars == <<POLL_ATTEMPTS, pc, file, target, contentType, created, i, finalUrl, lastStatus,
          responses, calls, replies, request, fn, page, fetches>>

\* what the handler never touches
aux == <<fn, page, fetches>>

(* ---------------------------------------------------------------------- *)
(* Pure functions                                                          *)
(* ---------------------------------------------------------------------- *)
StartsWith(s, p) == Len(s) >= Len(p) /\ SubSeq(s, 1, Len(p)) = p

\* the prefixes tested without their slash
getShopifyContentType_NoSlash(mimetype) ==
  IF StartsWith(mimetype, <<"video">>) THEN "VIDEO"
  ELSE IF StartsWith(mimetype, <<"image">>) THEN "IMAGE"
  ELSE "FILE"

getShopifyContentType(mimetype) ==
  IF StartsWith(mimetype, <<"video", "/">>) THEN "VIDEO"
  ELSE IF StartsWith(mimetype, <<"image", "/">>) THEN "IMAGE"
  ELSE "FILE"

\* lines 72-80: the variables of the staging mutation (fileSize left out)
stagedVars(f, kind) ==
  [filename |-> f.originalFilename, mimeType |-> f.mimetype,
   httpMethod |-> "POST", resource |-> kind]

\* a body that grows at the front: the parts come out in reverse
FormAppend_Prepend(form, name, value) ==
  <<[name |-> name, value |-> value]>> \o form

\* FormData.append: the part goes to the end of the body
FormAppend(form, name, value) == Append(form, [name |-> name, value |-> value])

\* line 90: parameters.forEach(p => uploadForm.append(p.name, p.value)),
\* the parameters from index k on appended to form
RECURSIVE AppendParameters(_, _, _)
AppendParameters(form, parameters, k) ==
  IF k > Len(parameters) THEN form
  ELSE AppendParameters(
         FormAppend(form, parameters[k].name, parameters[k].value),
         parameters, k + 1)

\* lines 89-94: the multi-part body, parameters first and the file part last
uploadForm(parameters, f) ==
  FormAppend(AppendParameters(<<>>, parameters, 1), "file",
             [buffer |-> "bytes", filename |-> f.originalFilename,
              contentType |-> f.mimetype])

\* String.prototype.split(sep) for a one-character separator: the pieces
\* of str between the separators, with cur the piece being read
RECURSIVE SplitFrom(_, _, _, _)
SplitFrom(str, sep, k, cur) ==
  IF k > Len(str) THEN <<cur>>
  ELSE IF str[k] = sep THEN <<cur>> \o SplitFrom(str, sep, k + 1, <<>>)
  ELSE SplitFrom(str, sep, k + 1, Append(cur, str[k]))
Split(str, sep) == SplitFrom(str, sep, 1, <<>>)

\* Array.prototype.pop(): the last element
Pop(arr) == arr[Len(arr)]

\* String.prototype.endsWith
EndsWith(str, suffix) ==
  /\ Len(str) >= Len(suffix)
  /\ SubSeq(str, Len(str) - Len(suffix) + 1, Len(str)) = suffix

\* line 110: uploadedUrl.split('.').pop()?.split('?')[0]
uploadedExt(uploadedUrl) == Split(Pop(Split(uploadedUrl, ".")), "?")[1]

\* lines 111-113: originalFilename?.endsWith(uploadedExt) ? originalFilename
\* : `file.${uploadedExt}`
safeFilename(uploadedUrl, originalFilename) ==
  IF originalFilename # NullName
     /\ EndsWith(originalFilename, uploadedExt(uploadedUrl))
    THEN originalFilename
    ELSE <<"f", "i", "l", "e", ".">> \o uploadedExt(uploadedUrl)

\* lines 129-135: the variables of the fileCreate mutation
fileCreateVars(uploadedUrl, originalFilename, kind) ==
  [originalSource |-> uploadedUrl,
   filename |-> safeFilename(uploadedUrl, originalFilename),
   contentType |-> kind]

\* parseInt(process.env.POLL_ATTEMPTS || '30', 10): an integer or NaN
NaN == [nan |-> TRUE, n |-> 0]
Num(k) == [nan |-> FALSE, n |-> k]
PollAttemptsValues == {NaN} \cup { Num(k) : k \in -1 .. MaxBudget }

\* the loop written as do .. while: the first attempt is not tested
LessThanBudget_DoWhile(n, budget) == n = 0 \/ (~budget.nan /\ n < budget.n)

\* the loop test written with <= : one attempt too many
LessThanBudget_Inclusive(n, budget) == ~budget.nan /\ n <= budget.n

\* i < POLL_ATTEMPTS, false when POLL_ATTEMPTS is NaN
LessThanBudget(n, budget) == ~budget.nan /\ n < budget.n

\* JSON.stringify(result.errors): the text of the list, a sequence of tokens
Stringify(errors) == <<"[">> \o errors \o <<"]">>

\* a client that trusts the HTTP status instead of the errors list
callAdmin_HttpStatus(result) ==
  IF ~result.ok
    THEN [threw |-> TRUE, message |-> Stringify(result.errors)]
    ELSE [threw |-> FALSE, message |-> <<>>]

\* callAdmin after the answer arrived: throws on application-level errors,
\* whatever the HTTP status, and returns result.data otherwise
callAdmin(result) ==
  IF Len(result.errors) > 0
    THEN [threw |-> TRUE, message |-> Stringify(result.errors)]
    ELSE [threw |-> FALSE, message |-> <<>>]

\* a test against null only, which lets the empty string through
Truthy_NotNull(u) == u # Null

\* truthiness of a string or null/undefined (lines 179, 185)
Truthy(u) == u # Null /\ u # ""

\* the user errors of staging are not looked at
StagingFailed_Ignored(data) == FALSE

\* line 83: stagedUploadsCreate.userErrors.length
StagingFailed(data) == Len(data.userErrors) > 0

\* the test of the transfer status turned around
UploadOk_Inverted(result) == ~result.ok

\* the status of the transfer is not looked at
UploadOk_Always(result) == TRUE

\* line 102: uploadRes.ok
UploadOk(result) == result.ok

\* the user errors of fileCreate are not looked at
CreateFailed_Ignored(data) == FALSE

\* line 138: fileCreate.userErrors.length
CreateFailed(data) == Len(data.userErrors) > 0

\* a missing node is polled again like a pending one
NodeAbsent_Never(node) == FALSE

\* line 171: !node
NodeAbsent(node) == node.typename = Null

\* the loop is left on READY whether or not a url was found
ReadyBreak_StatusOnly(ls, fu) == ls = "READY"

\* lines 175, 179: the READY branch leaves the loop
ReadyBreak(ls, fu) == ls = "READY" /\ Truthy(fu)

\* the video variant read like a generic file: node.url instead of sources
VariantUrl_VideoDirect(node, prev) ==
  IF node.typename = "GenericFile" THEN node.url
  ELSE IF node.typename = "MediaImage" THEN node.imageUrl
  ELSE IF node.typename = "Video" THEN node.url
  ELSE prev

\* the image variant read like a generic file: node.url instead of image.url
VariantUrl_WrongField(node, prev) ==
  IF node.typename = "GenericFile" THEN node.url
  ELSE IF node.typename = "MediaImage" THEN node.url
  ELSE IF node.typename = "Video" THEN node.sourceUrl
  ELSE prev

\* lines 176-178: finalUrl after the READY branch read the variant named by
\* node.__typename; an unknown typename leaves finalUrl as it was
VariantUrl(node, prev) ==
  IF node.typename = "GenericFile" THEN node.url
  ELSE IF node.typename = "MediaImage" THEN node.imageUrl
  ELSE IF node.typename = "Video" THEN node.sourceUrl
  ELSE prev

(* ---------------------------------------------------------------------- *)
(* Responses                                                               *)
(* ---------------------------------------------------------------------- *)
TextResponse(code, text) == [status |-> code, json |-> FALSE, body |-> text]
JsonResponse(code, obj) == [status |-> code, json |-> TRUE, body |-> obj]

\* res.status(..).json(..) / .end(..) followed by return: the execution ends
Respond(r, resp) ==
  /\ responses' = [responses EXCEPT ![r] = Append(@, resp)]
  /\ pc' = [pc EXCEPT ![r] = "done"]

\* the catch block, lines 192-195: error.message || 'Unknown error'
Catch(r, message) ==
  Respond(r, JsonResponse(500,
    [error |-> IF message = <<>> THEN <<"Unknown error">> ELSE message]))

Issue(r, call) == calls' = [calls EXCEPT ![r] = Append(@, call)]
Receive(r, op, result) ==
  replies' = [replies EXCEPT ![r] = Append(@, [op |-> op, result |-> result])]

\* no pure part was applied yet
NoFn == [name |-> "none", in |-> <<>>, out |-> <<>>]

\* useState(null), useState(false), useState(null), useState(null):
\* upload.tsx lines 4-7
InitialPage == [file |-> Null, uploading |-> FALSE, result |-> Null,
                error |-> Null]

(* ---------------------------------------------------------------------- *)
(* Initial state                                                           *)
(* ---------------------------------------------------------------------- *)
InitOf(active) ==
  /\ POLL_ATTEMPTS \in PollAttemptsValues
  /\ pc = [r \in Reqs |-> IF r \in active THEN "idle" ELSE "none"]
  /\ file = [r \in Reqs |-> NoUpload]
  /\ target = [r \in Reqs |-> NoTarget]
  /\ contentType = [r \in Reqs |-> Null]
  /\ created = [r \in Reqs |-> NoFile]
  /\ i = [r \in Reqs |-> 0]
  /\ finalUrl = [r \in Reqs |-> Null]
  /\ lastStatus = [r \in Reqs |-> Null]
  /\ responses = [r \in Reqs |-> <<>>]
  /\ calls = [r \in Reqs |-> <<>>]
  /\ replies = [r \in Reqs |-> <<>>]
  /\ request = [r \in Reqs |-> <<>>]
  /\ fn = NoFn
  /\ page = InitialPage
  /\ fetches = <<>>

Init == InitOf({1})

(* ---------------------------------------------------------------------- *)
(* Steps of one request                                                    *)
(* ---------------------------------------------------------------------- *)

\* lines 185-190: after the loop
AfterLoop(r, fu, ls) ==
  IF ~Truthy(fu)
    THEN Respond(r, JsonResponse(500,
           [error |-> "File did not become READY", status |-> ls]))
    ELSE Respond(r, JsonResponse(200, [url |-> fu]))

\* lines 169-170: the loop test and, when it passes, the poll query of
\* iteration n; created.id throws a TypeError when files[0] was undefined
LoopTest(r, n, fu, ls, c) ==
  IF LessThanBudget(n, POLL_ATTEMPTS)
    THEN IF c = NoFile
           THEN Catch(r, <<"TypeError">>) /\ UNCHANGED calls
           ELSE /\ Issue(r, [op |-> "poll", arg |-> [id |-> c.id]])
                /\ pc' = [pc EXCEPT ![r] = "polling"]
                /\ UNCHANGED responses
    ELSE AfterLoop(r, fu, ls) /\ UNCHANGED calls

\* every method is let through to form.parse
MethodAllowed_Any(method) == TRUE

\* line 43: req.method !== 'POST'
MethodAllowed(method) == method = "POST"

\* line 43: the handler is entered
Handler(r) ==
  /\ pc[r] = "idle"
  /\ \E method \in Methods :
       /\ request' = [request EXCEPT ![r] = Append(@, [method |-> method])]
       /\ IF ~MethodAllowed(method)
            THEN Respond(r, TextResponse(405, "Method Not Allowed"))
            ELSE /\ pc' = [pc EXCEPT ![r] = "parsing"]
                 /\ UNCHANGED responses
  /\ UNCHANGED <<POLL_ATTEMPTS, file, target, contentType, created, i, finalUrl,
                 lastStatus, calls, replies>>
  /\ UNCHANGED aux

\* lines 47-82: the callback of form.parse up to the staging call
ParseCallback(r) ==
  /\ pc[r] = "parsing"
  /\ \E err \in BOOLEAN, hasFile \in BOOLEAN, f \in Files :
       /\ request' = [request EXCEPT ![r] =
                        Append(@, [err |-> err, hasFile |-> hasFile])]
       /\ IF err
            THEN /\ Respond(r, JsonResponse(500, [error |-> "Error parsing form data"]))
                 /\ UNCHANGED <<file, contentType, calls>>
          ELSE IF ~hasFile
            THEN /\ Respond(r, JsonResponse(400, [error |-> "No file uploaded"]))
                 /\ UNCHANGED <<file, contentType, calls>>
          ELSE IF ~f.readable
            THEN /\ Catch(r, <<"ENOENT">>)
                 /\ UNCHANGED <<file, contentType, calls>>
          ELSE /\ file' = [file EXCEPT ![r] = f.file]
               /\ contentType' = [contentType EXCEPT ![r] =
                                    getShopifyContentType(f.file.mimetype)]
               /\ Issue(r, [op |-> "stage",
                            arg |-> stagedVars(f.file,
                                      getShopifyContentType(f.file.mimetype))])
               /\ pc' = [pc EXCEPT ![r] = "staging"]
               /\ UNCHANGED responses
  /\ UNCHANGED <<POLL_ATTEMPTS, target, created, i, finalUrl, lastStatus, replies>>
  /\ UNCHANGED aux

\* lines 82-100: the staging answer up to the binary transfer
StagingReturns(r) ==
  /\ pc[r] = "staging"
  /\ \E result \in StagingResults :
       /\ Receive(r, "stage", result)
       /\ IF callAdmin(result).threw
            THEN Catch(r, callAdmin(result).message) /\ UNCHANGED <<calls, target>>
          ELSE IF StagingFailed(result.data)
            THEN /\ Respond(r, JsonResponse(422,
                      [error |-> "Failed to stage upload",
                       details |-> result.data.userErrors]))
                 /\ UNCHANGED <<calls, target>>
          ELSE IF Len(result.data.stagedTargets) = 0
            THEN Catch(r, <<"TypeError">>) /\ UNCHANGED <<calls, target>>
          ELSE LET t == result.data.stagedTargets[1]
               IN /\ target' = [target EXCEPT ![r] = t]
                  /\ Issue(r, [op |-> "transfer",
                               arg |-> [url |-> t.url,
                                        body |-> uploadForm(t.parameters, file[r])]])
                  /\ pc' = [pc EXCEPT ![r] = "uploading"]
                  /\ UNCHANGED responses
  /\ UNCHANGED <<POLL_ATTEMPTS, file, contentType, created, i, finalUrl, lastStatus>>
  /\ UNCHANGED <<request, aux>>

\* lines 96-137: the answer of the staged target up to the fileCreate call
UploadReturns(r) ==
  /\ pc[r] = "uploading"
  /\ \E result \in UploadResults :
       /\ Receive(r, "transfer", result)
       /\ IF ~UploadOk(result)
            THEN /\ Respond(r, JsonResponse(500,
                      [error |-> "Upload to Shopify failed",
                       details |-> result.text]))
                 /\ UNCHANGED calls
            ELSE /\ Issue(r, [op |-> "register",
                              arg |-> fileCreateVars(target[r].resourceUrl,
                                        file[r].originalFilename, contentType[r])])
                 /\ pc' = [pc EXCEPT ![r] = "creating"]
                 /\ UNCHANGED responses
  /\ UNCHANGED <<POLL_ATTEMPTS, file, target, contentType, created, i, finalUrl,
                 lastStatus>>
  /\ UNCHANGED <<request, aux>>

\* one cell for all requests, as a variable declared at module level has
Slot_Module(r) == 1

\* lines 166-169: finalUrl, lastStatus and i are declared inside the
\* callback, so every request has cells of its own
Slot(r) == r

\* lines 137-170: the fileCreate answer up to the first poll query
FileCreateReturns(r) ==
  /\ pc[r] = "creating"
  /\ \E result \in CreateResults :
       /\ Receive(r, "register", result)
       /\ IF callAdmin(result).threw
            THEN /\ Catch(r, callAdmin(result).message)
                 /\ UNCHANGED <<calls, created, i, finalUrl, lastStatus>>
          ELSE IF CreateFailed(result.data)
            THEN /\ Respond(r, JsonResponse(422,
                      [error |-> "Failed to create file",
                       details |-> result.data.userErrors]))
                 /\ UNCHANGED <<calls, created, i, finalUrl, lastStatus>>
          ELSE LET c == IF Len(result.data.files) = 0 THEN NoFile
                        ELSE result.data.files[1]
               IN /\ created' = [created EXCEPT ![r] = c]
                  /\ i' = [i EXCEPT ![Slot(r)] = 0]
                  /\ finalUrl' = [finalUrl EXCEPT ![Slot(r)] = Null]
                  /\ lastStatus' = [lastStatus EXCEPT ![Slot(r)] = Null]
                  /\ LoopTest(r, 0, Null, Null, c)
  /\ UNCHANGED <<POLL_ATTEMPTS, file, target, contentType>>
  /\ UNCHANGED <<request, aux>>

\* lines 170-182: the poll answer up to the suspension
PollReturns(r) ==
  /\ pc[r] = "polling"
  /\ \E result \in PollResults(created[r].typename) :
       /\ Receive(r, "poll", result)
       /\ IF callAdmin(result).threw
            THEN /\ Catch(r, callAdmin(result).message)
                 /\ UNCHANGED <<calls, finalUrl, lastStatus>>
          ELSE IF NodeAbsent(result.data.node)
            THEN /\ AfterLoop(r, finalUrl[Slot(r)], lastStatus[Slot(r)])
                 /\ UNCHANGED <<calls, finalUrl, lastStatus>>
          ELSE LET ls == result.data.node.fileStatus
                   fu == IF ls = "READY"
                           THEN VariantUrl(result.data.node, finalUrl[Slot(r)])
                           ELSE finalUrl[Slot(r)]
               IN /\ lastStatus' = [lastStatus EXCEPT ![Slot(r)] = ls]
                  /\ finalUrl' = [finalUrl EXCEPT ![Slot(r)] = fu]
                  /\ IF ReadyBreak(ls, fu)
                       THEN AfterLoop(r, fu, ls) /\ UNCHANGED calls
                       ELSE /\ Issue(r, [op |-> "sleep", arg |-> SleepMs])
                            /\ pc' = [pc EXCEPT ![r] = "sleeping"]
                            /\ UNCHANGED responses
  /\ UNCHANGED <<POLL_ATTEMPTS, file, target, contentType, created, i>>
  /\ UNCHANGED <<request, aux>>

\* lines 182, 169-170: the timer fires, i++, the loop test and the next query
TimerFires(r) ==
  /\ pc[r] = "sleeping"
  /\ i' = [i EXCEPT ![Slot(r)] = @ + 1]
  /\ LoopTest(r, i[Slot(r)] + 1, finalUrl[Slot(r)], lastStatus[Slot(r)],
              created[r])
  /\ UNCHANGED <<POLL_ATTEMPTS, file, target, contentType, created, finalUrl,
                 lastStatus, replies>>
  /\ UNCHANGED <<request, aux>>

NextOf(active) ==
  \E r \in active :
     \/ Handler(r)
     \/ ParseCallback(r)
     \/ StagingReturns(r)
     \/ UploadReturns(r)
     \/ FileCreateReturns(r)
     \/ PollReturns(r)
     \/ TimerFires(r)

Next == NextOf({1})

Spec == Init /\ [][Next]_vars

(* ---------------------------------------------------------------------- *)
(* Two requests at once                                                    *)
(* ---------------------------------------------------------------------- *)
\* the runtime runs the handler once per request and interleaves the runs
\* at their awaits. Here two uploads are in flight, a video and an image,
\* and the platform lets both through to the poll loop: no call fails
\* before it, and the records made have the type of their kind.
ConcFile(r) ==
  IF r = 1 THEN FileOf(<<"video", "/", "mp4">>) ELSE FileOf(<<"image", "/", "png">>)
ConcCreated(r) ==
  IF r = 1 THEN [typename |-> "Video", id |-> IdOf("Video")]
  ELSE [typename |-> "MediaImage", id |-> IdOf("MediaImage")]

ConcEnv ==
  \A r \in Reqs :
    /\ file[r] \in {NoUpload, ConcFile(r)}
    /\ created[r] \in {NoFile, ConcCreated(r)}
    /\ \A k \in 1 .. Len(replies[r]) :
         replies[r][k].op # "transfer" => Len(replies[r][k].result.errors) = 0
    /\ pc[r] = "done" => \E k \in 1 .. Len(replies[r]) : replies[r][k].op = "poll"

ConcInit == InitOf(Reqs) /\ POLL_ATTEMPTS = Num(ConcBudget)

ConcNext ==
  \E r \in Reqs :
     \/ Handler(r) /\ ConcEnv'
     \/ ParseCallback(r) /\ ConcEnv'
     \/ StagingReturns(r) /\ ConcEnv'
     \/ UploadReturns(r) /\ ConcEnv'
     \/ FileCreateReturns(r) /\ ConcEnv'
     \/ PollReturns(r) /\ ConcEnv'
     \/ TimerFires(r) /\ ConcEnv'

ConcSpec == ConcInit /\ [][ConcNext]_vars

(* ---------------------------------------------------------------------- *)
(* The pure parts of the handler, applied to inputs of bounded size        *)
(* ---------------------------------------------------------------------- *)
SeqsUpTo(S, n) == UNION { [1 .. k -> S] : k \in 0 .. n }

\* signed parameters as a staging answer may list them
ParameterLists ==
  SeqsUpTo([name : {"key", "policy", "acl"}, value : {"v1", "v2"}], MaxParams)

\* resource urls and file names, character by character
UrlChars == {"/", ".", "?", "a", "4"}
ResourceUrls ==
  SeqsUpTo(UrlChars, MaxUrlLen)
  \cup { Target.resourceUrl,
         <<"/", "a", ".", "m", "p", "4", "?", "v", "=", "1", ".", "2">>,
         <<"/", "a", ".", "m", "p", "4", "?", "v", "=", "1">> }
NameChars == {".", "a", "4"}
Filenames == SeqsUpTo(NameChars, MaxNameLen) \cup {NullName, Mov, Mp4, Png}

\* mime types, token by token
MimeTokens == {"video", "image", "text", "/"}
MimeTexts == SeqsUpTo(MimeTokens, MaxMimeLen) \cup Mimetypes

Applied(name, in, out) ==
  /\ fn' = [name |-> name, in |-> in, out |-> out]
  /\ UNCHANGED <<POLL_ATTEMPTS, pc, file, target, contentType, created, i,
                 finalUrl, lastStatus, responses, calls, replies, request,
                 page, fetches>>

\* lines 89-94
ApplyUploadForm ==
  /\ fn.name = "none"
  /\ \E ps \in ParameterLists, m \in Mimetypes :
    Applied("uploadForm", [parameters |-> ps, file |-> FileOf(m)],
            uploadForm(ps, FileOf(m)))

\* lines 109-113
ApplySafeFilename ==
  /\ fn.name = "none"
  /\ \E u \in ResourceUrls, n \in Filenames :
    Applied("safeFilename", [uploadedUrl |-> u, originalFilename |-> n],
            safeFilename(u, n))

\* lines 18-22, 60
ApplyContentType ==
  /\ fn.name = "none"
  /\ \E m \in MimeTexts :
    Applied("getShopifyContentType", [mimetype |-> m],
            getShopifyContentType(m))

FnInit == InitOf({})

FnNext == ApplyUploadForm \/ ApplySafeFilename \/ ApplyContentType

FnSpec == FnInit /\ [][FnNext]_vars

(* ---------------------------------------------------------------------- *)
(* Histories read by the properties                                        *)
(* ---------------------------------------------------------------------- *)
IsPoll(e) == e.op = "poll"
IsSleep(e) == e.op = "sleep"
IsOutbound(e) == e.op # "sleep"

\* the answers to the poll queries of request r, in order
PollReplies(r) == SelectSeq(replies[r], IsPoll)
\* the number of poll queries request r has sent
NumPolls(r) == Len(SelectSeq(calls[r], IsPoll))
NumCalls(r, op) == Cardinality({ k \in 1 .. Len(calls[r]) : calls[r][k].op = op })

\* the non-empty urls a node carries (only the fragment of its type is filled)
ReadyUrls(node) == {node.url, node.imageUrl, node.sourceUrl} \ {Null, ""}

Answered(e) == Len(e.result.errors) = 0
Present(e) == Answered(e) /\ e.result.data.node # NullNode
Absent(e) == Answered(e) /\ e.result.data.node = NullNode
ReadyWithUrl(e) ==
  /\ Present(e)
  /\ e.result.data.node.fileStatus = "READY"
  /\ ReadyUrls(e.result.data.node) # {}
ReadyNoUrl(e) ==
  /\ Present(e)
  /\ e.result.data.node.fileStatus = "READY"
  /\ ReadyUrls(e.result.data.node) = {}
NotYet(e) == Present(e) /\ ~ReadyWithUrl(e)

Budget == IF POLL_ATTEMPTS.nan THEN 0 ELSE POLL_ATTEMPTS.n

Responded(r, code) ==
  /\ Len(responses[r]) = 1
  /\ responses[r][1].status = code

(* ---------------------------------------------------------------------- *)
(* Readiness poller                                                        *)
(* ---------------------------------------------------------------------- *)

\* C1: with a budget B >= 1, when the answers to attempts 1..k-1 are present
\* nodes that are not READY with a url and the answer to attempt k is READY
\* with a non-empty url, the handler has answered 200 with exactly that url
\* and has sent exactly k poll queries.
C1_ReadyOnAttemptK ==
  \A r \in Reqs : \A k \in 1 .. Len(PollReplies(r)) :
    ( /\ Budget >= 1
      /\ \A j \in 1 .. k - 1 : NotYet(PollReplies(r)[j])
      /\ ReadyWithUrl(PollReplies(r)[k]) )
    => /\ k <= Budget
       /\ pc[r] = "done"
       /\ Responded(r, 200)
       /\ responses[r][1].json
       /\ responses[r][1].body.url \in ReadyUrls(PollReplies(r)[k].result.data.node)
       /\ NumPolls(r) = k
       /\ Len(PollReplies(r)) = k

\* a run that became READY on its second attempt
C1_Witness ==
  /\ Len(PollReplies(1)) = 2
  /\ NotYet(PollReplies(1)[1])
  /\ ReadyWithUrl(PollReplies(1)[2])
  /\ Responded(1, 200)

\* C2: with a budget B >= 1, when every poll answer is a present node that
\* is not READY with a url, no more than B poll queries are ever sent, and
\* the run ends only after B of them, with a 500 that carries the fileStatus
\* of the B-th answer.
C2_ExhaustedAfterBudget ==
  \A r \in Reqs :
    ( /\ Budget >= 1
      /\ Len(PollReplies(r)) >= 1
      /\ \A j \in 1 .. Len(PollReplies(r)) : NotYet(PollReplies(r)[j]) )
    => /\ NumPolls(r) <= Budget
       /\ pc[r] = "done" =>
            /\ Len(PollReplies(r)) = Budget
            /\ NumPolls(r) = Budget
            /\ Responded(r, 500)
            /\ responses[r][1].body.status =
                 PollReplies(r)[Budget].result.data.node.fileStatus

\* a run of three attempts that ended with the status of the third
C2_Witness ==
  /\ pc[1] = "done"
  /\ Budget = 3
  /\ Len(PollReplies(1)) = 3
  /\ \A j \in 1 .. 3 : NotYet(PollReplies(1)[j])
  /\ PollReplies(1)[1].result.data.node.fileStatus = "PROCESSING"
  /\ PollReplies(1)[3].result.data.node.fileStatus = "FAILED"
  /\ Responded(1, 500)

\* C3: when the answer to a poll query carries no node, the poller stops at
\* once: that query is the last call of the run, no suspension follows it,
\* and the handler has answered 500.
C3_AbsentNodeAborts ==
  \A r \in Reqs : \A k \in 1 .. Len(PollReplies(r)) :
    Absent(PollReplies(r)[k])
    => /\ k = Len(PollReplies(r))
       /\ NumPolls(r) = k
       /\ calls[r][Len(calls[r])].op = "poll"
       /\ pc[r] = "done"
       /\ Responded(r, 500)

\* the node disappeared on the second attempt
C3_Witness ==
  /\ Len(PollReplies(1)) = 2
  /\ Absent(PollReplies(1)[2])
  /\ Budget = 3
  /\ pc[1] = "done"

\* C4: a 200 is sent only when the last poll answer of the request was READY
\* with a non-empty url, and it carries that url.
C4_SuccessOnlyWhenReady ==
  \A r \in Reqs : \A n \in 1 .. Len(responses[r]) :
    responses[r][n].status = 200
    => /\ Len(PollReplies(r)) >= 1
       /\ ReadyWithUrl(PollReplies(r)[Len(PollReplies(r))])
       /\ responses[r][n].body.url \in
            ReadyUrls(PollReplies(r)[Len(PollReplies(r))].result.data.node)

\* a 200 was sent
C4_Witness ==
  /\ Responded(1, 200)
  /\ Len(PollReplies(1)) >= 1
  /\ ReadyWithUrl(PollReplies(1)[Len(PollReplies(1))])


Last(q) == q[Len(q)]

\* C5: a poll answer that is READY but carries no url (empty or missing) is
\* not a success: the handler sends no response and suspends, and when the
\* timer fires with attempts left in the budget the next poll query is sent.
C5_ReadyWithoutUrlKeepsPolling ==
  [][\A r \in Reqs :
       /\ ( /\ Len(PollReplies(r)') = Len(PollReplies(r)) + 1
            /\ ReadyNoUrl(Last(PollReplies(r)')) )
          => /\ pc'[r] = "sleeping"
             /\ responses'[r] = responses[r]
             /\ Len(calls'[r]) = Len(calls[r]) + 1
             /\ Last(calls'[r]).op = "sleep"
       /\ ( /\ pc[r] = "sleeping"
            /\ pc'[r] # "sleeping"
            /\ ReadyNoUrl(Last(PollReplies(r)))
            /\ Len(PollReplies(r)) < Budget )
          => /\ pc'[r] = "polling"
             /\ responses'[r] = responses[r]
             /\ NumPolls(r)' = NumPolls(r) + 1
             /\ Last(calls'[r]).op = "poll"
    ]_vars

\* the query that follows a READY answer without url is in flight
C5_Witness ==
  /\ pc[1] = "polling"
  /\ Len(PollReplies(1)) >= 1
  /\ ReadyNoUrl(Last(PollReplies(1)))
  /\ NumPolls(1) = Len(PollReplies(1)) + 1

(* ---------------------------------------------------------------------- *)
(* Failures of the stages                                                  *)
(* ---------------------------------------------------------------------- *)

\* C6: when the staging call returns user errors, the handler has answered
\* 422 with those user errors as details, and the staging call is the only
\* call of the run: no transfer, no registration, no poll query.
C6_StagingUserErrors ==
  \A r \in Reqs : \A k \in 1 .. Len(replies[r]) :
    ( /\ replies[r][k].op = "stage"
      /\ Answered(replies[r][k])
      /\ replies[r][k].result.data.userErrors # <<>> )
    => /\ pc[r] = "done"
       /\ Responded(r, 422)
       /\ responses[r][1].json
       /\ responses[r][1].body.details = replies[r][k].result.data.userErrors
       /\ Len(calls[r]) = 1
       /\ calls[r][1].op = "stage"

\* the end-to-end failure scenario of the staging stage
C6_Witness ==
  /\ Len(replies[1]) = 1
  /\ replies[1][1].op = "stage"
  /\ Answered(replies[1][1])
  /\ replies[1][1].result.data.userErrors = <<"File size exceeds limit">>
  /\ Responded(1, 422)

\* C7: when the staged target answers the transfer with a non-success status,
\* the handler has answered 500 with the raw body as details, the transfer
\* was sent once, and no registration and no poll query was sent.
C7_TransferFailure ==
  \A r \in Reqs : \A k \in 1 .. Len(replies[r]) :
    ( /\ replies[r][k].op = "transfer"
      /\ ~replies[r][k].result.ok )
    => /\ pc[r] = "done"
       /\ Responded(r, 500)
       /\ responses[r][1].json
       /\ responses[r][1].body.details = replies[r][k].result.text
       /\ NumCalls(r, "transfer") = 1
       /\ NumCalls(r, "register") = 0
       /\ NumCalls(r, "poll") = 0

\* the staged target refused the transfer
C7_Witness ==
  /\ Len(replies[1]) = 2
  /\ replies[1][2].op = "transfer"
  /\ ~replies[1][2].result.ok
  /\ replies[1][2].result.text = "<Error>AccessDenied</Error>"
  /\ Responded(1, 500)

\* C8: when the fileCreate call returns user errors, the handler has answered
\* 422 with those user errors as details, the call was sent once and no poll
\* query was sent.
C8_RegistrationUserErrors ==
  \A r \in Reqs : \A k \in 1 .. Len(replies[r]) :
    ( /\ replies[r][k].op = "register"
      /\ Answered(replies[r][k])
      /\ replies[r][k].result.data.userErrors # <<>> )
    => /\ pc[r] = "done"
       /\ Responded(r, 422)
       /\ responses[r][1].json
       /\ responses[r][1].body.details = replies[r][k].result.data.userErrors
       /\ NumCalls(r, "register") = 1
       /\ NumCalls(r, "poll") = 0

\* the platform refused the registration
C8_Witness ==
  /\ Len(replies[1]) = 3
  /\ replies[1][3].op = "register"
  /\ Answered(replies[1][3])
  /\ replies[1][3].result.data.userErrors = <<"Invalid file type">>
  /\ Responded(1, 422)

\* C9: when the answer to a platform call (staging, registration or a poll
\* query) carries application-level errors, whatever its HTTP status and its
\* data, the handler has answered 500 with an error, and that call is the
\* last outbound call and the last step of the run.
C9_ProtocolErrorsFail ==
  \A r \in Reqs : \A k \in 1 .. Len(replies[r]) :
    ( /\ replies[r][k].op \in {"stage", "register", "poll"}
      /\ Len(replies[r][k].result.errors) > 0 )
    => /\ k = Len(replies[r])
       /\ pc[r] = "done"
       /\ Responded(r, 500)
       /\ responses[r][1].json
       /\ responses[r][1].body.error = Stringify(replies[r][k].result.errors)
       /\ Len(SelectSeq(calls[r], IsOutbound)) = k
       /\ Last(calls[r]).op = replies[r][k].op

\* errors came with a 2xx status and a READY node on the second poll query
C9_Witness ==
  /\ Len(PollReplies(1)) = 2
  /\ Len(Last(replies[1]).result.errors) > 0
  /\ Last(replies[1]).result.ok
  /\ Last(replies[1]).result.data.node.fileStatus = "READY"
  /\ ReadyUrls(Last(replies[1]).result.data.node) # {}
  /\ Responded(1, 500)

(* ---------------------------------------------------------------------- *)
(* Responses of the handler                                                *)
(* ---------------------------------------------------------------------- *)
WellFormed(resp) ==
  /\ resp.json
  /\ IF resp.status = 200
       THEN "url" \in DOMAIN resp.body /\ Truthy(resp.body.url)
       ELSE "error" \in DOMAIN resp.body

\* C10: every request gets at most one response, a finished request has
\* got one, and every response is a 200 that carries a url or a non-200
\* JSON body that carries an error field.
C10_OneWellFormedResponse ==
  \A r \in Reqs :
    /\ Len(responses[r]) <= 1
    /\ pc[r] = "done" => Len(responses[r]) = 1
    /\ \A n \in 1 .. Len(responses[r]) : WellFormed(responses[r][n])

\* the parts of C10 that hold of every request: exactly one response, sent
\* when the run ends, and well formed unless it is the 405
C10_ExactlyOneResponse ==
  \A r \in Reqs :
    /\ Len(responses[r]) <= 1
    /\ pc[r] = "done" <=> Len(responses[r]) = 1
    /\ \A n \in 1 .. Len(responses[r]) :
         responses[r][n].status # 405 => WellFormed(responses[r][n])

\* every step of the run is eventually taken: the runtime calls the handler
\* and the callback, every outbound call returns and the timer fires
FairSpec == Spec /\ WF_vars(Next)

C10_EventuallyResponds == <>(pc[1] = "done")

(* ---------------------------------------------------------------------- *)
(* Binary transmitter                                                      *)
(* ---------------------------------------------------------------------- *)
\* body carries the parameters ps in their order and unchanged, then the
\* file part f as its last field
ParametersThenFile(ps, f, body) ==
  /\ Len(body) = Len(ps) + 1
  /\ \A k \in 1 .. Len(ps) :
       body[k].name = ps[k].name /\ body[k].value = ps[k].value
  /\ body[Len(body)].name = "file"
  /\ body[Len(body)].value.buffer = "bytes"
  /\ body[Len(body)].value.filename = f.originalFilename
  /\ body[Len(body)].value.contentType = f.mimetype

\* C11: the multi-part body holds the signed parameters of the staging
\* answer first, in the order of the answer and with their names and values
\* unchanged, and the file part is its last field: for every parameter list
\* the body is built from, and for every transfer a request sends.
C11_ParametersBeforeFile ==
  /\ fn.name = "uploadForm"
       => ParametersThenFile(fn.in.parameters, fn.in.file, fn.out)
  /\ \A r \in Reqs : \A k \in 1 .. Len(calls[r]) :
       calls[r][k].op = "transfer"
       => ParametersThenFile(target[r].parameters, file[r], calls[r][k].arg.body)

\* a body built from three parameters that are not in alphabetical order
C11_Witness ==
  /\ fn.name = "uploadForm"
  /\ Len(fn.in.parameters) = 3
  /\ fn.in.parameters[1].name = "policy"
  /\ fn.in.parameters[2].name = "key"
  /\ fn.in.parameters[3].name = "acl"
  /\ Len(fn.out) = 4

(* ---------------------------------------------------------------------- *)
(* Asset registrar                                                         *)
(* ---------------------------------------------------------------------- *)
\* the final path segment of a resource url: after the last "/", the query
\* string excluded
FinalSegment(url) == Pop(Split(Split(url, "?")[1], "/"))
HasExtension(url) == Len(Split(FinalSegment(url), ".")) >= 2
\* the extension of that segment
SegmentExtension(url) == Pop(Split(FinalSegment(url), "."))
HasQueryDot(url) ==
  \E k \in 1 .. Len(url) :
    url[k] = "." /\ \E j \in 1 .. k - 1 : url[j] = "?"

\* the file name the registrar is to pick for an extension
PickedName(name, ext) ==
  IF name # NullName /\ EndsWith(name, ext) THEN name
  ELSE <<"f", "i", "l", "e", ".">> \o ext

\* C12: for every resource url whose final path segment has an extension and
\* every original file name, the file name sent at registration is the
\* original one when it ends with that extension and file.<extension>
\* otherwise, the extension being that of the final path segment with the
\* query string excluded.
C12_NameFromSegmentExtension ==
  ( /\ fn.name = "safeFilename"
    /\ HasExtension(fn.in.uploadedUrl) )
  => fn.out = PickedName(fn.in.originalFilename,
                         SegmentExtension(fn.in.uploadedUrl))

\* what the code does keep of C12: the same, for the urls that have no "."
\* in their query string
C12_HoldsWithoutQueryDot ==
  ( /\ fn.name = "safeFilename"
    /\ HasExtension(fn.in.uploadedUrl)
    /\ ~HasQueryDot(fn.in.uploadedUrl) )
  => fn.out = PickedName(fn.in.originalFilename,
                         SegmentExtension(fn.in.uploadedUrl))

\* the two examples: (a.mov, mp4) gives file.mp4 and (a.mp4, mp4) gives a.mp4
C12_Examples ==
  /\ safeFilename(Target.resourceUrl, Mov) = <<"f", "i", "l", "e", ".", "m", "p", "4">>
  /\ safeFilename(Target.resourceUrl, Mp4) = Mp4

(* ---------------------------------------------------------------------- *)
(* Asset kind                                                              *)
(* ---------------------------------------------------------------------- *)
\* the kind of a mime type by its prefix
KindOfPrefix(m) ==
  IF Len(m) >= 2 /\ m[1] = "video" /\ m[2] = "/" THEN "VIDEO"
  ELSE IF Len(m) >= 2 /\ m[1] = "image" /\ m[2] = "/" THEN "IMAGE"
  ELSE "FILE"

CallsOf(r, op) == { k \in 1 .. Len(calls[r]) : calls[r][k].op = op }

\* C13: the kind is the one of the mime prefix (video/ VIDEO, image/ IMAGE,
\* anything else FILE), and one and the same kind is the resource of the
\* staging call and the contentType of the registration call of a request.
C13_OneKindPerRequest ==
  /\ fn.name = "getShopifyContentType" => fn.out = KindOfPrefix(fn.in.mimetype)
  /\ \A r \in Reqs :
       /\ \A k \in CallsOf(r, "stage") :
            /\ calls[r][k].arg.mimeType = file[r].mimetype
            /\ calls[r][k].arg.resource = KindOfPrefix(file[r].mimetype)
            /\ calls[r][k].arg.resource = contentType[r]
       /\ \A k \in CallsOf(r, "register") :
            /\ calls[r][k].arg.contentType = KindOfPrefix(file[r].mimetype)
            /\ \A j \in CallsOf(r, "stage") :
                 calls[r][k].arg.contentType = calls[r][j].arg.resource

\* a video went through staging and registration as VIDEO
C13_Witness ==
  /\ file[1].mimetype = <<"video", "/", "mp4">>
  /\ CallsOf(1, "stage") # {}
  /\ \E k \in CallsOf(1, "register") : calls[1][k].arg.contentType = "VIDEO"

(* ---------------------------------------------------------------------- *)
(* Requests that are turned away                                           *)
(* ---------------------------------------------------------------------- *)
\* C14: a request whose method is not POST is answered 405, a POST whose
\* form fails to parse is answered 500 and a POST whose form has no file is
\* answered 400; in each case the run is over and no outbound call and no
\* suspension was made.
C14_TurnedAwayWithoutCalls ==
  \A r \in Reqs :
    /\ ( Len(request[r]) >= 1 /\ request[r][1].method # "POST" )
       => pc[r] = "done" /\ Responded(r, 405) /\ calls[r] = <<>>
    /\ ( Len(request[r]) >= 2 /\ request[r][2].err )
       => pc[r] = "done" /\ Responded(r, 500) /\ calls[r] = <<>>
    /\ ( Len(request[r]) >= 2 /\ ~request[r][2].err /\ ~request[r][2].hasFile )
       => pc[r] = "done" /\ Responded(r, 400) /\ calls[r] = <<>>

\* a POST without a file was answered
C14_Witness ==
  /\ Len(request[1]) = 2
  /\ request[1][1].method = "POST"
  /\ ~request[1][2].err
  /\ ~request[1][2].hasFile
  /\ Responded(1, 400)

(* ---------------------------------------------------------------------- *)
(* Order of the stages                                                     *)
(* ---------------------------------------------------------------------- *)
\* the outbound calls of request r, the suspensions left out
Outbound(r) == SelectSeq(calls[r], IsOutbound)

StageOfCall(k) ==
  IF k = 1 THEN "stage" ELSE IF k = 2 THEN "transfer"
  ELSE IF k = 3 THEN "register" ELSE "poll"

\* C15: the outbound calls of a request are the staging call, the binary
\* transfer, the registration call and then poll queries only, each stage
\* but the poll query at most once; a call is sent only when all the calls
\* before it were answered, the transfer only after a staging answer without
\* errors and user errors, the registration only after a successful
\* transfer, and poll queries only after a registration answer without
\* errors and user errors.
C15_StagesStrictlyForward ==
  \A r \in Reqs :
    /\ \A k \in 1 .. Len(Outbound(r)) : Outbound(r)[k].op = StageOfCall(k)
    /\ Len(replies[r]) <= Len(Outbound(r))
    /\ Len(Outbound(r)) <= Len(replies[r]) + 1
    /\ \A k \in 1 .. Len(replies[r]) : replies[r][k].op = StageOfCall(k)
    /\ Len(Outbound(r)) >= 2
         => /\ Answered(replies[r][1])
            /\ replies[r][1].result.data.userErrors = <<>>
    /\ Len(Outbound(r)) >= 3 => replies[r][2].result.ok
    /\ Len(Outbound(r)) >= 4
         => /\ Answered(replies[r][3])
            /\ replies[r][3].result.data.userErrors = <<>>
    /\ \A k \in 5 .. Len(Outbound(r)) : NotYet(replies[r][k - 1])

\* all four stages were gone through and the poll query was repeated
C15_Witness ==
  /\ Len(Outbound(1)) = 5
  /\ Outbound(1)[3].op = "register"
  /\ Outbound(1)[5].op = "poll"
  /\ pc[1] = "polling"

(* ---------------------------------------------------------------------- *)
(* Variant of the asset                                                    *)
(* ---------------------------------------------------------------------- *)
\* the url field of the variant of an asset kind
KindField(kind, node) ==
  IF kind = "FILE" THEN node.url
  ELSE IF kind = "IMAGE" THEN node.imageUrl
  ELSE node.sourceUrl

\* the url field of the variant a node says it is
TypeField(node) ==
  IF node.typename = "GenericFile" THEN node.url
  ELSE IF node.typename = "MediaImage" THEN node.imageUrl
  ELSE node.sourceUrl

\* the record type the platform makes for an asset kind
TypeOfKind(kind) ==
  IF kind = "FILE" THEN "GenericFile"
  ELSE IF kind = "IMAGE" THEN "MediaImage"
  ELSE "Video"

\* the last answer of request r is a poll answer with a READY node
LastIsReadyNode(r) ==
  /\ Len(replies[r]) >= 1
  /\ Last(replies[r]).op = "poll"
  /\ Present(Last(replies[r]))
  /\ Last(replies[r]).result.data.node.fileStatus = "READY"

\* every poll query of request r carries the identifier that the
\* registration answer of r returned
SameIdentifier(r) ==
  \A k \in CallsOf(r, "poll") :
    /\ calls[r][k].arg.id = created[r].id
    /\ Len(replies[r]) >= 3
    /\ replies[r][3].op = "register"
    /\ calls[r][k].arg.id = replies[r][3].result.data.files[1].id

IsPresent(e) == Present(e)
IsReadyNode(e) == Present(e) /\ e.result.data.node.fileStatus = "READY"

\* what the own poll answers of request r make of its loop variables
OwnAttempts(r) ==
  Cardinality(CallsOf(r, "sleep")) - (IF pc[r] = "sleeping" THEN 1 ELSE 0)
OwnLastStatus(r) ==
  LET seen == SelectSeq(PollReplies(r), IsPresent)
  IN IF seen = <<>> THEN Null ELSE Last(seen).result.data.node.fileStatus
OwnFinalUrl(r) ==
  LET ready == SelectSeq(PollReplies(r), IsReadyNode)
  IN IF ready = <<>> THEN Null ELSE TypeField(Last(ready).result.data.node)

\* C17: with two requests running at once, their steps interleaved in any
\* order, each request's attempt counter, last status and final url are
\* what its own poll answers make them, its poll queries carry the
\* identifier of its own registration, and its response (200 with its own
\* final url, or 500 with its own last status) follows from its own answers.
C17_RequestsShareNothing ==
  \A r \in Reqs :
    /\ i[r] = OwnAttempts(r)
    /\ lastStatus[r] = OwnLastStatus(r)
    /\ finalUrl[r] = OwnFinalUrl(r)
    /\ SameIdentifier(r)
    /\ \A k \in CallsOf(r, "poll") : calls[r][k].arg.id = ConcCreated(r).id
    /\ ( /\ pc[r] = "done"
         /\ Len(PollReplies(r)) >= 1
         /\ Answered(Last(PollReplies(r))) )
       => /\ Len(responses[r]) = 1
          /\ IF ReadyWithUrl(Last(PollReplies(r)))
               THEN /\ responses[r][1].status = 200
                    /\ responses[r][1].body.url = OwnFinalUrl(r)
               ELSE /\ responses[r][1].status = 500
                    /\ responses[r][1].body.status = OwnLastStatus(r)

\* both poll loops are under way, at different attempts and with different
\* statuses
C17_Witness ==
  /\ pc[1] = "sleeping"
  /\ pc[2] = "sleeping"
  /\ i[1] = 1
  /\ i[2] = 0
  /\ lastStatus[1] = "PROCESSING"
  /\ lastStatus[2] = "FAILED"
  /\ Len(PollReplies(1)) = 2
  /\ Len(PollReplies(2)) = 1

(* ---------------------------------------------------------------------- *)
(* Suspensions                                                             *)
(* ---------------------------------------------------------------------- *)
\* every suspension follows a poll query, and a poll query that is not the
\* first one follows exactly one suspension
SleepsFollowPolls(r) ==
  \A k \in 1 .. Len(calls[r]) :
    /\ calls[r][k].op = "sleep"
         => k > 1 /\ calls[r][k - 1].op = "poll"
    /\ ( calls[r][k].op = "poll" /\ k > 1 /\ calls[r][k - 1].op # "register" )
         => /\ calls[r][k - 1].op = "sleep"
            /\ k > 2
            /\ calls[r][k - 2].op = "poll"

\* C18: the poller suspends only between attempts: consecutive poll queries
\* are one suspension apart, none comes before the first poll query, and a
\* run that has ended (READY, absent node or exhausted budget) did not
\* suspend after its last poll query.
C18_SuspendsOnlyBetweenAttempts ==
  \A r \in Reqs :
    /\ SleepsFollowPolls(r)
    /\ ( pc[r] = "done" /\ calls[r] # <<>> ) => Last(calls[r]).op # "sleep"

\* what the code does keep of C18: suspensions and poll queries alternate,
\* starting with a poll query, and a run that has ended suspended after its
\* last poll query exactly when that query's answer was a node not yet READY
\* with a url, that is when the budget ran out
C18_SuspendsAfterEveryPendingAnswer ==
  \A r \in Reqs :
    /\ SleepsFollowPolls(r)
    /\ ( pc[r] = "done" /\ calls[r] # <<>> )
       => ( Last(calls[r]).op = "sleep"
            <=> /\ Len(PollReplies(r)) >= 1
                /\ NotYet(Last(PollReplies(r))) )
    /\ ( pc[r] = "done" /\ calls[r] # <<>> /\ Last(calls[r]).op = "sleep" )
       => Len(PollReplies(r)) = Budget /\ Responded(r, 500)

(* ---------------------------------------------------------------------- *)
(* Budget                                                                  *)
(* ---------------------------------------------------------------------- *)
\* the registration of request r was answered without errors and user errors
Registered(r) ==
  /\ Len(replies[r]) >= 3
  /\ replies[r][3].op = "register"
  /\ Answered(replies[r][3])
  /\ replies[r][3].result.data.userErrors = <<>>

NoBudget == POLL_ATTEMPTS.nan \/ POLL_ATTEMPTS.n <= 0

\* C19: whatever the budget, a request never sends more poll queries than
\* the budget; with a budget that is zero, negative or not a number it sends
\* none, and a request whose staging, transfer and registration succeeded
\* ends with a 500 whose status is null.
C19_NeverMoreThanBudget ==
  \A r \in Reqs :
    /\ ~NoBudget => NumPolls(r) <= POLL_ATTEMPTS.n
    /\ NoBudget
         => /\ NumPolls(r) = 0
            /\ Registered(r)
                 => /\ pc[r] = "done"
                    /\ Responded(r, 500)
                    /\ responses[r][1] =
                         JsonResponse(500, [error |-> "File did not become READY",
                                            status |-> Null])

\* a registered upload that was never polled because the budget is NaN
C19_Witness ==
  /\ POLL_ATTEMPTS = NaN
  /\ Registered(1)
  /\ Len(replies[1][3].result.data.files) = 1
  /\ Responded(1, 500)
  /\ NumPolls(1) = 0

(* ---------------------------------------------------------------------- *)
(* The upload page (src/pages/upload.tsx)                                  *)
(* ---------------------------------------------------------------------- *)
\* uploads one page session starts at most
MaxUploads == 3

\* files of the file dialog; Null is a dialog closed without a file
ClientFiles == {"f1", "f2"}

\* what fetch settles with: a response with its ok flag, or a rejection
FetchOutcomes ==
  [thrown : {FALSE}, ok : BOOLEAN, message : {Null}]
  \cup [thrown : {TRUE}, ok : {FALSE}, message : {"Failed to fetch", ""}]

\* what res.json() settles with: the parsed body, or a rejection for a body
\* that is not JSON; an absent field is Null
JsonOutcomes ==
  [thrown : {FALSE}, url : {"u1", "u2", Null}, error : {"e1", "", Null},
   message : {Null}]
  \cup [thrown : {TRUE}, url : {Null}, error : {Null},
        message : {"Unexpected token"}]

\* a || b on strings and absent values
Or(a, b) == IF a \in {Null, ""} THEN b ELSE a

\* the requests of the page that have not settled
InFlight == { k \in 1 .. Len(fetches) : fetches[k].state # "settled" }

\* the handler's side, which the page never touches
server == <<POLL_ATTEMPTS, pc, file, target, contentType, created, i,
            finalUrl, lastStatus, responses, calls, replies, request, fn>>

\* the button without the uploading test
ButtonDisabled_FileOnly == page.file = Null

\* line 55: disabled={uploading || !file}
ButtonDisabled == page.uploading \/ page.file = Null

\* lines 45-49: onChange of the file input, disabled while uploading
SetFile ==
  /\ ~page.uploading
  /\ \E f \in ClientFiles \cup {Null} : page' = [page EXCEPT !.file = f]
  /\ UNCHANGED <<server, fetches>>

\* lines 9-23: a click on the enabled button, up to the fetch
HandleUpload ==
  /\ ~ButtonDisabled
  /\ Len(fetches) < MaxUploads
  /\ IF page.file = Null
       THEN UNCHANGED <<page, fetches>>
       ELSE /\ page' = [page EXCEPT !.uploading = TRUE, !.error = Null,
                                    !.result = Null]
            /\ fetches' = Append(fetches, [file |-> page.file,
                                           state |-> "fetching",
                                           ok |-> FALSE])
  /\ UNCHANGED server

\* lines 33-38: catch and finally
Caught(k, message) ==
  /\ page' = [page EXCEPT !.error = Or(message, "Upload request failed"),
                          !.uploading = FALSE]
  /\ fetches' = [fetches EXCEPT ![k].state = "settled"]

\* lines 20-25: fetch settles; a response goes on to res.json()
FetchSettles ==
  /\ \E k \in 1 .. Len(fetches) :
       /\ fetches[k].state = "fetching"
       /\ \E res \in FetchOutcomes :
            IF res.thrown
              THEN Caught(k, res.message)
              ELSE /\ fetches' = [fetches EXCEPT ![k].state = "parsing",
                                                 ![k].ok = res.ok]
                   /\ UNCHANGED page
  /\ UNCHANGED server

\* lines 25-38: res.json() settles
JsonSettles ==
  /\ \E k \in 1 .. Len(fetches) :
       /\ fetches[k].state = "parsing"
       /\ \E data \in JsonOutcomes :
            IF data.thrown
              THEN Caught(k, data.message)
              ELSE /\ page' =
                        IF fetches[k].ok
                          THEN [page EXCEPT !.result = data.url,
                                            !.uploading = FALSE]
                          ELSE [page EXCEPT
                                  !.error = Or(data.error,
                                               "Unknown upload error"),
                                  !.uploading = FALSE]
                   /\ fetches' = [fetches EXCEPT ![k].state = "settled"]
  /\ UNCHANGED server

ClientInit == InitOf({}) /\ POLL_ATTEMPTS = Num(MaxBudget)

ClientNext == SetFile \/ HandleUpload \/ FetchSettles \/ JsonSettles

ClientSpec == ClientInit /\ [][ClientNext]_vars

\* C20: on the upload page, whatever files are selected, whatever is clicked
\* and whatever the server answers: at most one upload request is in flight,
\* result and error are never both set, both are null from the start of an
\* upload until it settles, and uploading is true exactly while a request is
\* in flight, so it is false again after every reply and every failure.
C20_OneUploadAtATime ==
  /\ Cardinality(InFlight) <= 1
  /\ ~ ( page.result # Null /\ page.error # Null )
  /\ page.uploading => page.result = Null /\ page.error = Null
  /\ page.uploading <=> InFlight # {}

\* a second upload is in flight after a first one that showed a result
C20_Witness ==
  /\ Len(fetches) = 2
  /\ fetches[1].state = "settled" /\ fetches[1].ok
  /\ fetches[2].state = "parsing"
  /\ page.uploading /\ page.result = Null /\ page.error = Null

====
